---- MODULE Spec2Model ----
(***************************************************************************)
(* Model of rsl-polynomials: the Polynomial container (build, to_trimmed,  *)
(* to_monic), its evaluation (eval, eval_derivs) and the closed-form real  *)
(* solvers (linear, quadratic, cubic).                                     *)
(*                                                                         *)
(* Numbers.  An f64 is modelled in exact arithmetic as a record            *)
(*     [k, n, d, r]                                                        *)
(* with k = "fin" standing for the real number (n/d) * sqrt(r), n an       *)
(* integer, d a positive integer coprime to |n| and r a square-free        *)
(* positive integer (r = 1 for a rational), and with k = "nan", "inf",     *)
(* "ninf" standing for the IEEE values NaN, +inf and -inf.  k = "irr"      *)
(* stands for a finite real that has no such form (the cube root of 2,     *)
(* 1 + sqrt(2), ...): the model does not track its value.  k = "big"       *)
(* stands for a finite number of sign n whose magnitude is so large        *)
(* (2^600, say) that the product of two of them overflows to an infinity   *)
(* while their sums and their products with the other finite numbers of    *)
(* the model stay finite; its value is not tracked either.  Rounding and   *)
(* the sign of zero are not modelled.                                      *)
(* A coefficient of generic type T (f64 or Complex64) is a pair [re, im]   *)
(* of such numbers; for T = f64 the imaginary part is zero.                *)
(***************************************************************************)
EXTENDS Integers, Sequences, FiniteSets, TLC

IAbs(i) == IF i < 0 THEN -i ELSE i

ISgn(i) == IF i < 0 THEN -1 ELSE IF i = 0 THEN 0 ELSE 1

RECURSIVE Gcd(_, _)
Gcd(a, b) == IF b = 0 THEN a ELSE Gcd(b, a % b)

\* floor of the square root of m >= 0, by bisection on [lo, hi]
RECURSIVE IsqrtIn(_, _, _)
IsqrtIn(m, lo, hi) ==
    IF lo >= hi THEN lo
    ELSE LET mid == (lo + hi + 1) \div 2
         IN  IF mid <= m \div mid THEN IsqrtIn(m, mid, hi)
                                  ELSE IsqrtIn(m, lo, mid - 1)

\* 46340 = floor(sqrt(2^31 - 1)), the largest root a 32-bit integer can have
Isqrt(m) == IF m <= 1 THEN m ELSE IsqrtIn(m, 1, IF m < 46340 THEN m ELSE 46340)

\* floor of the cube root of m >= 0, by bisection on [lo, hi]
RECURSIVE IcbrtIn(_, _, _)
IcbrtIn(m, lo, hi) ==
    IF lo >= hi THEN lo
    ELSE LET mid == (lo + hi + 1) \div 2
         IN  IF mid * mid <= m \div mid THEN IcbrtIn(m, mid, hi)
                                        ELSE IcbrtIn(m, lo, mid - 1)

\* 1290 = floor(cbrt(2^31 - 1))
Icbrt(m) == IF m <= 1 THEN m ELSE IcbrtIn(m, 1, IF m < 1290 THEN m ELSE 1290)

\* the largest s with s*s dividing m >= 1
SquarePart(m) ==
    LET S == {s \in 1..Isqrt(m) : m % (s * s) = 0}
    IN  CHOOSE s \in S : \A t \in S : t <= s

\* the positive divisors of m >= 1
Divisors(m) ==
    LET S == {s \in 1..Isqrt(m) : m % s = 0}
    IN  S \cup {m \div s : s \in S}

\* the largest denominator CosThird looks at
MaxCosDen == 512

NaN == [k |-> "nan", n |-> 0, d |-> 1, r |-> 1]

Inf == [k |-> "inf", n |-> 0, d |-> 1, r |-> 1]

NegInf == [k |-> "ninf", n |-> 0, d |-> 1, r |-> 1]

Irr == [k |-> "irr", n |-> 0, d |-> 1, r |-> 1]

Zero == [k |-> "fin", n |-> 0, d |-> 1, r |-> 1]

Big == [k |-> "big", n |-> 1, d |-> 1, r |-> 1]

NegBig == [k |-> "big", n |-> -1, d |-> 1, r |-> 1]

\* a finite number of large magnitude with the sign of s
BigOfSign(s) == IF s > 0 THEN Big ELSE NegBig

\* (n/d) * sqrt(r) in lowest terms; d > 0 and r square-free are the caller's duty
Fin(n, d, r) ==
    IF n = 0 THEN Zero
    ELSE LET g == Gcd(IAbs(n), d)
         IN  [k |-> "fin", n |-> n \div g, d |-> d \div g, r |-> r]

Rat(n, d) == Fin(n, d, 1)

Int2F(i) == Rat(i, 1)

One == Int2F(1)

is_nan(x) == x.k = "nan"

is_infinite(x) == x.k \in {"inf", "ninf"}

is_finite(x) == x.k \in {"fin", "irr", "big"}

\* -1, 0, 1 for a number that is not NaN and whose value the model tracks
Sign(x) ==
    CASE x.k = "inf" -> 1
      [] x.k = "ninf" -> -1
      [] OTHER -> ISgn(x.n)

FromSign(s) == IF s > 0 THEN Inf ELSE NegInf

Neg(x) ==
    CASE x.k \in {"fin", "big"} -> [x EXCEPT !.n = -x.n]
      [] x.k = "inf" -> NegInf
      [] x.k = "ninf" -> Inf
      [] OTHER -> x

FAbs(x) ==
    CASE x.k \in {"fin", "big"} -> [x EXCEPT !.n = IAbs(x.n)]
      [] x.k = "ninf" -> Inf
      [] OTHER -> x

Add(x, y) ==
    CASE is_nan(x) \/ is_nan(y) -> NaN
      [] is_infinite(x) /\ is_infinite(y) -> IF x.k = y.k THEN x ELSE NaN
      [] is_infinite(x) -> x
      [] is_infinite(y) -> y
      [] x.k = "irr" \/ y.k = "irr" -> Irr
      [] x.k = "big" /\ y.k = "big" -> IF x.n = y.n THEN x ELSE Irr
      [] x.k = "big" -> x
      [] y.k = "big" -> y
      [] x.n = 0 -> y
      [] y.n = 0 -> x
      [] x.r # y.r -> Irr
      [] OTHER ->
            LET g == Gcd(x.d, y.d)
                l == (x.d \div g) * y.d
            IN  Fin(x.n * (y.d \div g) + y.n * (x.d \div g), l, x.r)

Sub(x, y) == Add(x, Neg(y))

Mul(x, y) ==
    CASE is_nan(x) \/ is_nan(y) -> NaN
      [] is_infinite(x) \/ is_infinite(y) ->
            IF x.k = "irr" \/ y.k = "irr" THEN Irr
            ELSE IF Sign(x) * Sign(y) = 0 THEN NaN
            ELSE FromSign(Sign(x) * Sign(y))
      [] x.k = "irr" \/ y.k = "irr" -> Irr
      [] x.n = 0 \/ y.n = 0 -> Zero
      [] x.k = "big" /\ y.k = "big" -> FromSign(Sign(x) * Sign(y))
      [] x.k = "big" \/ y.k = "big" -> BigOfSign(Sign(x) * Sign(y))
      [] OTHER ->
            LET g  == Gcd(x.r, y.r)
                g1 == Gcd(IAbs(x.n), y.d)
                g2 == Gcd(IAbs(y.n), x.d)
                \* sqrt(x.r) * sqrt(y.r) = g * sqrt((x.r/g) * (y.r/g))
                g3 == Gcd(g, (x.d \div g2) * (y.d \div g1))
            IN  Fin((x.n \div g1) * (y.n \div g2) * (g \div g3),
                    ((x.d \div g2) * (y.d \div g1)) \div g3,
                    (x.r \div g) * (y.r \div g))

Div(x, y) ==
    CASE is_nan(x) \/ is_nan(y) -> NaN
      [] is_infinite(x) /\ is_infinite(y) -> NaN
      [] is_infinite(y) -> IF x.k = "irr" THEN Irr ELSE Zero
      [] x.k = "irr" \/ y.k = "irr" -> Irr
      [] is_infinite(x) -> IF y.n = 0 THEN x ELSE FromSign(Sign(x) * Sign(y))
      [] y.n = 0 -> IF x.n = 0 THEN NaN ELSE FromSign(Sign(x))
      [] x.n = 0 -> Zero
      [] y.k = "big" -> Irr
      [] x.k = "big" -> BigOfSign(Sign(x) * Sign(y))
      [] OTHER ->
            \* 1 / ((n/d) sqrt(r)) = (d / (n r)) sqrt(r)
            Mul(x, Fin(ISgn(y.n) * y.d, IAbs(y.n) * y.r, y.r))

RECURSIVE powi(_, _)
powi(x, e) == IF e = 0 THEN One ELSE Mul(x, powi(x, e - 1))

sqrt(x) ==
    CASE x.k \in {"nan", "ninf"} -> NaN
      [] x.k \in {"inf", "irr"} -> x
      [] x.n < 0 -> NaN
      [] x.n = 0 -> Zero
      [] x.k = "big" \/ x.r # 1 -> Irr
      [] OTHER ->
            LET sn == SquarePart(x.n)
                sd == SquarePart(x.d)
                fn == x.n \div (sn * sn)
                fd == x.d \div (sd * sd)
            IN  Fin(sn, sd * fd, fn * fd)

\* powf(1.0 / 3.0): the real cube root of a non-negative number
cbrt(x) ==
    CASE x.k \in {"nan", "ninf"} -> NaN
      [] x.k \in {"inf", "irr"} -> x
      [] x.n < 0 -> NaN
      [] x.n = 0 -> Zero
      [] x.k = "big" \/ x.r # 1 -> Irr
      [] OTHER ->
            LET cn == Icbrt(x.n)
                cd == Icbrt(x.d)
            IN  IF cn * cn * cn = x.n /\ cd * cd * cd = x.d
                THEN Rat(cn, cd) ELSE Irr

signum(x) ==
    CASE is_nan(x) -> NaN
      [] x.k = "irr" -> Irr
      [] Sign(x) < 0 -> Int2F(-1)
      [] OTHER -> One

\* -1, 0, 1 as x < y, x = y, x > y, for numbers that are Ordered
Cmp(x, y) ==
    CASE x.k = y.k /\ x.k # "fin" -> 0
      [] x.k = "ninf" \/ y.k = "inf" -> -1
      [] x.k = "inf" \/ y.k = "ninf" -> 1
      [] ISgn(x.n) # ISgn(y.n) -> IF ISgn(x.n) < ISgn(y.n) THEN -1 ELSE 1
      [] x.k = "big" -> ISgn(x.n)
      [] y.k = "big" -> -ISgn(y.n)
      [] OTHER ->
            LET s == ISgn(x.n)
                g == Gcd(x.d, y.d)
                a == IAbs(x.n) * (y.d \div g)
                b == IAbs(y.n) * (x.d \div g)
                l == IF x.r = y.r THEN a ELSE a * a * x.r
                m == IF x.r = y.r THEN b ELSE b * b * y.r
            IN  IF l = m THEN 0 ELSE IF l < m THEN -s ELSE s

Tracked(x) == x.k \notin {"nan", "irr", "big"}

\* the model knows how x and y compare: neither is NaN or untracked, and they
\* are not two large numbers of one sign
Ordered(x, y) ==
    /\ x.k \notin {"nan", "irr"}
    /\ y.k \notin {"nan", "irr"}
    /\ ~(x.k = "big" /\ y.k = "big" /\ x.n = y.n)

FEq(x, y) == Tracked(x) /\ Tracked(y) /\ Cmp(x, y) = 0

FLt(x, y) == Ordered(x, y) /\ Cmp(x, y) < 0

FGt(x, y) == FLt(y, x)


\* cos((acos(x) + 2*PI*j) / 3) for j in {0, 1, -1}: the one root y of
\* 4y^3 - 3y = x with 1/2 <= y <= 1 (j = 0), -1 <= y <= -1/2 (j = 1),
\* -1/2 <= y <= 1/2 (j = -1); acos(x) is NaN outside [-1, 1].  The root is
\* looked for among the numbers (p/q) sqrt(x.r) with q <= MaxCosDen, and is
\* not tracked ("irr") when it is not one of them.
CosThird(x, j) ==
    LET lo == IF j = 0 THEN Rat(1, 2) ELSE IF j = 1 THEN Int2F(-1) ELSE Rat(-1, 2)
        hi == IF j = 0 THEN One ELSE IF j = 1 THEN Rat(-1, 2) ELSE Rat(1, 2)
        Cand == IF x.n = 0
                THEN {Zero, Fin(1, 2, 3), Fin(-1, 2, 3)}
                ELSE {Fin(s * p, q, x.r) :
                        s \in {-1, 1},
                        p \in Divisors(IAbs(x.n)),
                        q \in {e \in Divisors(4 * x.r * x.d) : e <= MaxCosDen}}
        Sol == {y \in Cand :
                  /\ Cmp(lo, y) <= 0
                  /\ Cmp(y, hi) <= 0
                  /\ IF y.n = 0 THEN x.n = 0
                     ELSE Sub(Mul(Int2F(4), Mul(y, y)), Int2F(3)) = Div(x, y)}
    IN  CASE x.k \in {"nan", "inf", "ninf"} -> NaN
          [] x.k = "irr" -> Irr
          [] Cmp(FAbs(x), One) > 0 -> NaN
          [] Sol = {} -> Irr
          [] OTHER -> CHOOSE y \in Sol : TRUE

\* ---- Result<T> and PolyError ----

NoError == [kind |-> "", order |-> 0]

InvalidCoefficients == [kind |-> "InvalidCoefficients", order |-> 0]

IncorrectOrder(expected) == [kind |-> "IncorrectOrder", order |-> expected]

ConstantPoly == [kind |-> "ConstantPoly", order |-> 0]

NoRealRoots == [kind |-> "NoRealRoots", order |-> 0]

NotRealCoefficients == [kind |-> "NotRealCoefficients", order |-> 0]

ComplexTof64Conversion == [kind |-> "ComplexTof64Conversion", order |-> 0]

Ok(v) == [tag |-> "Ok", val |-> v, err |-> NoError]

Err(e) == [tag |-> "Err", val |-> <<>>, err |-> e]

\* a panic: unwrap() on None, an index out of bounds, unreachable!()
Panic(msg) == [tag |-> "Panic", val |-> <<>>, err |-> [kind |-> msg, order |-> 0]]

\* ---- the scalar type T ----

Cx(re, im) == [re |-> re, im |-> im]

Real(x) == Cx(x, Zero)

c_is_nan(c) == is_nan(c.re) \/ is_nan(c.im)

c_is_infinite(c) == ~c_is_nan(c) /\ (is_infinite(c.re) \/ is_infinite(c.im))

c_is_finite(c) == is_finite(c.re) /\ is_finite(c.im)

c_is_zero(c) == FEq(c.re, Zero) /\ FEq(c.im, Zero)

\* e / a of T: (re*re' + im*im') / |a|^2, (im*re' - re*im') / |a|^2
c_div(e, a) ==
    LET norm_sqr == Add(Mul(a.re, a.re), Mul(a.im, a.im))
        re == Add(Mul(e.re, a.re), Mul(e.im, a.im))
        im == Sub(Mul(e.im, a.re), Mul(e.re, a.im))
    IN  Cx(Div(re, norm_sqr), Div(im, norm_sqr))

\* e * a of Complex64
c_mul(e, a) ==
    Cx(Sub(Mul(e.re, a.re), Mul(e.im, a.im)), Add(Mul(e.re, a.im), Mul(e.im, a.re)))

\* T::zero(), T::one() and T::from(i)
T_zero == Real(Zero)

T_one == Real(One)

T_from(i) == Real(Int2F(i))

\* the operators of T: those of f64 when both operands are real, those of
\* Complex64 otherwise
T_add(e, a) == Cx(Add(e.re, a.re), Add(e.im, a.im))

T_mul(e, a) ==
    IF e.im = Zero /\ a.im = Zero THEN Real(Mul(e.re, a.re)) ELSE c_mul(e, a)

T_div(e, a) ==
    IF e.im = Zero /\ a.im = Zero THEN Real(Div(e.re, a.re)) ELSE c_div(e, a)

\* ---- utils.rs ----

\* check_if_correct_order with `<` for `!=`: longer coefficient lists pass
check_if_correct_order_at_least(coef, expected_order) ==
    IF Len(coef) < expected_order + 1
    THEN Err(IncorrectOrder(expected_order))
    ELSE Ok(<<>>)

check_if_correct_order(coef, expected_order) ==
    IF Len(coef) # expected_order + 1
    THEN Err(IncorrectOrder(expected_order))
    ELSE Ok(<<>>)

\* check_if_real_coefficients that looks at the first coefficient only
check_if_real_coefficients_first(coef) ==
    IF coef # <<>> /\ ~FEq(coef[1].im, Zero)
    THEN Err(NotRealCoefficients)
    ELSE Ok(<<>>)

check_if_real_coefficients(coef) ==
    IF \E i \in 1..Len(coef) : ~FEq(coef[i].im, Zero)
    THEN Err(NotRealCoefficients)
    ELSE Ok(<<>>)

convert_complex_to_real(number) ==
    IF ~c_is_finite(number) \/ ~FEq(number.im, Zero)
    THEN Err(ComplexTof64Conversion)
    ELSE Ok(number.re)

\* the loop `for c in ... { reals.push(convert_complex_to_real(*c)?) }`
RECURSIVE ConvertAll(_)
ConvertAll(cs) ==
    IF cs = <<>> THEN Ok(<<>>)
    ELSE LET h == convert_complex_to_real(Head(cs))
             t == ConvertAll(Tail(cs))
         IN  IF h.tag # "Ok" THEN h
             ELSE IF t.tag # "Ok" THEN t
             ELSE Ok(<<h.val>> \o t.val)

\* ---- polynomial.rs: the container ----

new == <<Real(Zero)>>

\* build without the is_infinite test
build_nan_only(coef) ==
    IF Len(coef) = 0 THEN Ok(new)
    ELSE IF \E i \in 1..Len(coef) : c_is_nan(coef[i])
         THEN Err(InvalidCoefficients)
         ELSE Ok(coef)

build(coef) ==
    IF Len(coef) = 0 THEN Ok(new)
    ELSE IF \E i \in 1..Len(coef) : c_is_nan(coef[i]) \/ c_is_infinite(coef[i])
         THEN Err(InvalidCoefficients)
         ELSE Ok(coef)

\* the while loop of to_trimmed: drop the highest-order coefficient while it is zero
RECURSIVE TrimLoop(_)
TrimLoop(cs) ==
    IF cs # <<>> /\ c_is_zero(cs[Len(cs)])
    THEN TrimLoop(SubSeq(cs, 1, Len(cs) - 1))
    ELSE cs

\* to_trimmed with an `if` for the `while`: one zero is dropped at most
to_trimmed_once(coef) ==
    IF Len(coef) = 1 THEN coef
    ELSE IF coef # <<>> /\ c_is_zero(coef[Len(coef)])
         THEN SubSeq(coef, 1, Len(coef) - 1)
         ELSE coef

to_trimmed(coef) == IF Len(coef) = 1 THEN coef ELSE TrimLoop(coef)

to_monic(coef) ==
    IF Len(coef) = 1 THEN Ok(coef)
    ELSE LET monic == to_trimmed(coef)
         IN  IF monic = <<>> THEN Panic("unwrap on None")
             ELSE LET a == monic[Len(monic)]
                  IN  Ok([i \in 1..Len(monic) |-> T_div(monic[i], a)])

\* the reduce of eval: res holds the fold of the coefficients above order k
RECURSIVE Horner(_, _, _, _)
Horner(coef, x, k, res) ==
    IF k = 0 THEN res
    ELSE Horner(coef, x, k - 1, T_add(coef[k], T_mul(x, res)))

\* eval folding from the lowest-order coefficient upwards (no rev())
RECURSIVE eval_forward(_, _)
eval_forward(coef, x) ==
    IF coef = <<>> THEN T_zero
    ELSE IF Len(coef) = 1 THEN coef[1]
    ELSE eval_forward(<<T_add(coef[2], T_mul(x, coef[1]))>> \o SubSeq(coef, 3, Len(coef)), x)

eval(coef, x) ==
    IF coef = <<>> THEN T_zero
    ELSE Horner(coef, x, Len(coef) - 1, coef[Len(coef)])

\* `for j in 1..=jmax { res[j] = x * res[j] + res[j - 1] }`, from j on
RECURSIVE DerivInner(_, _, _, _)
DerivInner(res, x, j, jmax) ==
    IF j > jmax THEN res
    ELSE DerivInner([res EXCEPT ![j + 1] = T_add(T_mul(x, res[j + 1]), res[j])],
                    x, j + 1, jmax)

\* `for i in 0..last_idx`, from k = last_idx - i on down to k = 1
RECURSIVE DerivOuter(_, _, _, _, _)
DerivOuter(coef, x, res, k, nmax) ==
    IF k = 0 THEN res
    ELSE LET res0 == [res EXCEPT ![1] = T_add(T_mul(x, res[1]), coef[k])]
             jmax == IF nmax < k THEN nmax ELSE k - 1
         IN  DerivOuter(coef, x, DerivInner(res0, x, 1, jmax), k - 1, nmax)

\* `for (i, d) in ...take(nmax + 1).skip(2) { f = f * i; *d = *d * f }`, from i on
RECURSIVE DerivScale(_, _, _, _)
DerivScale(res, i, f, nmax) ==
    IF i > nmax THEN res
    ELSE LET fi == T_mul(f, T_from(i))
         IN  DerivScale([res EXCEPT ![i + 1] = T_mul(res[i + 1], fi)], i + 1, fi, nmax)

\* eval_derivs for n >= 1 and at least one coefficient, without the scaling
\* by the factorials
eval_derivs_unscaled(coef, x, n) ==
    LET last_idx == Len(coef) - 1
        nmax == (IF Len(coef) < n THEN Len(coef) ELSE n) - 1
        res == [j \in 1..n |-> IF j <= nmax + 1 THEN coef[Len(coef)] ELSE T_zero]
    IN  DerivOuter(coef, x, res, last_idx, nmax)

\* eval_derivs for n >= 1 and at least one coefficient
eval_derivs_filled(coef, x, n) ==
    LET last_idx == Len(coef) - 1
        nmax == (IF Len(coef) < n THEN Len(coef) ELSE n) - 1
        res == [j \in 1..n |-> IF j <= nmax + 1 THEN coef[Len(coef)] ELSE T_zero]
    IN  DerivScale(DerivOuter(coef, x, res, last_idx, nmax), 2, T_one, nmax)

\* eval_derivs.  `len - 1` and `min(len, n) - 1` are usize subtractions: with
\* overflow_checks (a debug build) they panic at 0 - 1; without (a release
\* build) they wrap to usize::MAX, nmax + 1 wraps back to 0, and the first
\* loop indexes res[0] or coef[k - 1] out of bounds unless it runs no step.
eval_derivs(coef, x, n, overflow_checks) ==
    IF Len(coef) = 0 \/ n = 0
    THEN IF overflow_checks THEN Panic("attempt to subtract with overflow")
         ELSE IF Len(coef) = 1 THEN Ok(<<>>)
         ELSE Panic("index out of bounds")
    ELSE Ok(eval_derivs_filled(coef, x, n))


\* ---- solve/linear.rs ----

\* solve_real_linear matching on b for a
solve_real_linear_match_b(a, b) ==
    IF FEq(b, Zero) THEN Err(ConstantPoly) ELSE Ok(Div(Neg(b), a))

solve_real_linear(a, b) ==
    IF FEq(a, Zero) THEN Err(ConstantPoly) ELSE Ok(Div(Neg(b), a))

\* ---- solve/quadratic.rs ----

\* det = b^2 - 4ac
Discriminant(a, b, c) == Sub(powi(b, 2), Mul(Mul(Int2F(4), a), c))

\* the arm Ordering::Equal
QuadraticEqual(a, b) == Ok(<<Div(Neg(b), Mul(Int2F(2), a))>>)

\* the arm Ordering::Greater with the minus branch first
QuadraticGreater_minus_first(a, b, det) ==
    LET x1 == Div(Add(Neg(b), sqrt(det)), Mul(Int2F(2), a))
        x2 == Div(Sub(Neg(b), sqrt(det)), Mul(Int2F(2), a))
    IN  Ok(<<x2, x1>>)

\* the arm Ordering::Greater
QuadraticGreater(a, b, det) ==
    LET x1 == Div(Add(Neg(b), sqrt(det)), Mul(Int2F(2), a))
        x2 == Div(Sub(Neg(b), sqrt(det)), Mul(Int2F(2), a))
    IN  Ok(<<x1, x2>>)

solve_real_quadratic(a, b, c) ==
    IF FEq(a, Zero)
    THEN LET x == solve_real_linear(b, c)
         IN  IF x.tag = "Ok" THEN Ok(<<x.val>>) ELSE x
    ELSE LET det == Discriminant(a, b, c)
         IN  CASE is_nan(det) -> Panic("NaN discriminant")
               [] FLt(det, Zero) -> Err(NoRealRoots)
               [] FEq(det, Zero) -> QuadraticEqual(a, b)
               [] OTHER -> QuadraticGreater(a, b, det)

\* ---- solve/cubic.rs ----

\* insertion of x into the ascending sequence s
RECURSIVE SortedInsert(_, _)
SortedInsert(x, s) ==
    IF s = <<>> THEN <<x>>
    ELSE IF Cmp(x, Head(s)) < 0 THEN <<x>> \o s
    ELSE <<Head(s)>> \o SortedInsert(x, Tail(s))

RECURSIVE SortAscending(_)
SortAscending(s) ==
    IF s = <<>> THEN <<>> ELSE SortedInsert(Head(s), SortAscending(Tail(s)))

\* Ok(ans) without the sort
sort_by_partial_cmp_skipped(ans) == Ok(ans)

\* ans.sort_by(|a, b| a.partial_cmp(b).unwrap()); Ok(ans)
sort_by_partial_cmp(ans) ==
    IF \E i \in 1..Len(ans) : is_nan(ans[i]) THEN Panic("unwrap on None")
    ELSE IF \E i \in 1..Len(ans) : ans[i].k \in {"irr", "big"}
         THEN Ok([i \in 1..Len(ans) |-> Irr])
         ELSE Ok(SortAscending(ans))

CubicQ(a, b) == Sub(powi(a, 2), Mul(Int2F(3), b))

CubicR(a, b, c) ==
    Add(Sub(Mul(Int2F(2), powi(a, 3)), Mul(Mul(Int2F(9), a), b)), Mul(Int2F(27), c))

\* cq_cap3 with 729 for 2916
CubicCQ3_unscaled(q) == Mul(Int2F(729), powi(q, 3))

\* cq_cap3 = 2916 q^3
CubicCQ3(q) == Mul(Int2F(2916), powi(q, 3))

\* cr_cap2 = 729 r^2
CubicCR2(r) == Mul(Int2F(729), powi(r, 2))

\* which of the four branches of solve_real_cubic the arguments select
CubicBranch(a, b, c) ==
    LET q == CubicQ(a, b)
        r == CubicR(a, b, c)
        q_cap == Div(q, Int2F(9))
        r_cap == Div(r, Int2F(54))
        q_cap3 == powi(q_cap, 3)
        r_cap2 == powi(r_cap, 2)
        cq_cap3 == CubicCQ3(q)
        cr_cap2 == CubicCR2(r)
    IN  IF FEq(r_cap, Zero) /\ FEq(q_cap, Zero) THEN "triple"
        ELSE IF FEq(cr_cap2, cq_cap3) THEN "double"
        ELSE IF FLt(r_cap2, q_cap3) THEN "three"
        ELSE "one"

\* the branch r_cap == 0 & q_cap == 0, which returns without sorting
CubicTripleRoot(a) ==
    LET x == Div(Neg(a), Int2F(3))
    IN  Ok(<<x, x, x>>)

\* the branch cr_cap2 == cq_cap3 with `r < 0.0` for `r > 0.0`
CubicDoubleRoot_flipped(a, q_cap, r) ==
    LET sqrtq == sqrt(q_cap)
        a_3 == Div(a, Int2F(3))
    IN  IF FLt(r, Zero)
        THEN << Sub(Mul(Int2F(-2), sqrtq), a_3), Sub(sqrtq, a_3), Sub(sqrtq, a_3) >>
        ELSE << Sub(Neg(sqrtq), a_3), Sub(Neg(sqrtq), a_3),
                Sub(Mul(Int2F(2), sqrtq), a_3) >>

\* ans of the branch cr_cap2 == cq_cap3
CubicDoubleRoot(a, q_cap, r) ==
    LET sqrtq == sqrt(q_cap)
        a_3 == Div(a, Int2F(3))
    IN  IF FGt(r, Zero)
        THEN << Sub(Mul(Int2F(-2), sqrtq), a_3), Sub(sqrtq, a_3), Sub(sqrtq, a_3) >>
        ELSE << Sub(Neg(sqrtq), a_3), Sub(Neg(sqrtq), a_3),
                Sub(Mul(Int2F(2), sqrtq), a_3) >>

\* ans of the branch r_cap2 < q_cap3
CubicThreeRoots(a, q_cap, r, r_cap2, q_cap3) ==
    LET sgnr == signum(r)
        ratio == Mul(sgnr, sqrt(Div(r_cap2, q_cap3)))
        norm == Mul(Int2F(-2), sqrt(q_cap))
        a_3 == Div(a, Int2F(3))
    IN  << Sub(Mul(norm, CosThird(ratio, 0)), a_3),
           Sub(Mul(norm, CosThird(ratio, 1)), a_3),
           Sub(Mul(norm, CosThird(ratio, -1)), a_3) >>

\* x of the last branch
CubicOneRoot(a, q, r, r_cap, r_cap2, q_cap3) ==
    LET sgnr == signum(r)
        a_cap == Mul(Neg(sgnr), cbrt(Add(FAbs(r_cap), sqrt(Sub(r_cap2, q_cap3)))))
        b_cap == Div(q, a_cap)
    IN  Sub(Add(a_cap, b_cap), Div(a, Int2F(3)))

solve_real_cubic(a, b, c) ==
    LET q == CubicQ(a, b)
        r == CubicR(a, b, c)
        q_cap == Div(q, Int2F(9))
        r_cap == Div(r, Int2F(54))
        q_cap3 == powi(q_cap, 3)
        r_cap2 == powi(r_cap, 2)
        branch == CubicBranch(a, b, c)
    IN  CASE branch = "triple" -> CubicTripleRoot(a)
          [] branch = "double" -> sort_by_partial_cmp(CubicDoubleRoot(a, q_cap, r))
          [] branch = "three" ->
               sort_by_partial_cmp(CubicThreeRoots(a, q_cap, r, r_cap2, q_cap3))
          [] OTHER ->
               LET x == CubicOneRoot(a, q, r, r_cap, r_cap2, q_cap3)
               IN  sort_by_partial_cmp(<<x, x, x>>)

\* ---- polynomial.rs: the solvers of a Polynomial ----

Polynomial_solve_real_quadratic(coef) ==
    LET order == check_if_correct_order(coef, 2)
        real == check_if_real_coefficients(coef)
        reals == ConvertAll(coef)
    IN  CASE order.tag # "Ok" -> order
          [] real.tag # "Ok" -> real
          [] reals.tag # "Ok" -> reals
          [] OTHER -> solve_real_quadratic(reals.val[3], reals.val[2], reals.val[1])

Polynomial_solve_real_cubic(coef) ==
    LET order == check_if_correct_order(coef, 3)
        real == check_if_real_coefficients(coef)
        monic == to_monic(coef)
        reals == ConvertAll(Tail(monic.val))
    IN  CASE order.tag # "Ok" -> order
          [] real.tag # "Ok" -> real
          [] monic.tag # "Ok" -> monic
          [] reals.tag # "Ok" -> reals
          [] Len(reals.val) < 3 -> Panic("index out of bounds")
          [] OTHER -> solve_real_cubic(reals.val[3], reals.val[2], reals.val[1])


\* ---- inputs ----

\* bound on the integer coefficients of the polynomials and solver arguments
MaxCoef == 4

\* bound on the integer roots the cubics are expanded from
MaxRoot == 3

\* bound on the Cardano parameters A, B of the cubics with one real root
MaxCardano == 2

\* bound on the length of the coefficient slices over Scalars
MaxLen == 5

Coefs == -MaxCoef..MaxCoef

Roots == -MaxRoot..MaxRoot

\* a, b, c of the monic cubic (x - r1)(x - r2)(x - r3)
ExpandRoots(r1, r2, r3) ==
    << -(r1 + r2 + r3), r1 * r2 + r1 * r3 + r2 * r3, -(r1 * r2 * r3) >>

\* a, b, c of the monic cubic (x + k)^3 - 3AB(x + k) - (A^3 + B^3)
ExpandCardano(k, A, B) ==
    << 3 * k, 3 * k * k - 3 * A * B,
       k * k * k - 3 * A * B * k - (A * A * A + B * B * B) >>

SortedRoots == {t \in Roots \X Roots \X Roots : t[1] <= t[2] /\ t[2] <= t[3]}

IntTriples ==
    (Coefs \X Coefs \X Coefs)
    \cup {ExpandRoots(t[1], t[2], t[3]) : t \in SortedRoots}
    \cup {ExpandCardano(k, A, B) :
            k \in -1..1, A \in -MaxCardano..MaxCardano, B \in -MaxCardano..MaxCardano}

F64Seq(s) == [i \in 1..Len(s) |-> Int2F(s[i])]

RealSeq(s) == [i \in 1..Len(s) |-> Real(Int2F(s[i]))]

\* the (a, b, c) the solvers are called with
Triples == {F64Seq(t) : t \in IntTriples}

Scalars ==
    { Real(Zero), Real(One), Cx(One, One), Real(NaN), Real(Inf), Cx(Zero, NegInf) }

Leading == {-1, 0, 1, 2}

\* real coefficients of which some are large
LargeScalars == {Real(Zero), Real(One), Real(Big), Real(NegBig)}

\* the coefficient slices build is called with, lowest order first
Slices ==
    UNION {[1..n -> Scalars] : n \in 0..MaxLen}
    \cup {RealSeq(<<t[3], t[2], t[1]>>) : t \in IntTriples}
    \cup {RealSeq(<<l * t[3], l * t[2], l * t[1], l>>) : t \in IntTriples, l \in Leading}
    \cup [1..3 -> LargeScalars]

Inputs ==
    {[kind |-> "coef", v |-> s] : s \in Slices}
    \cup {[kind |-> "abc", v |-> t] : t \in Triples}

\* bound on the number of coefficients of the polynomials that are evaluated;
\* up to one derivative more than that is asked of eval_derivs
MaxEvalLen == 4

\* the integer coefficients of the polynomials that are evaluated
EvalCoefs == {-1, 0, 2}

\* the coefficient slices of the polynomials that are evaluated
EvalSlices ==
    UNION {[1..n -> {T_from(i) : i \in EvalCoefs}] : n \in 0..MaxEvalLen}
    \cup { <<Cx(One, One)>>, <<Cx(Zero, One), Real(One)>>,
           <<Real(One), Cx(One, One), Cx(Zero, One)>>,
           <<Real(Zero), Cx(One, One), Real(Zero), Real(Zero)>>,
           <<Cx(One, One), Real(Zero), Cx(Zero, One), T_from(2)>> }

\* the finite points x
FinitePoints == {T_from(-2), Cx(Rat(1, 2), One)}

\* the points x
Points == FinitePoints \cup {Real(NaN)}

EvalInputs ==
    {[kind |-> "eval", v |-> s, x |-> x, n |-> n] :
        s \in EvalSlices, x \in Points, n \in 0..(MaxEvalLen + 1)}

\* ---- the state machine ----

VARIABLES
    input,   \* what the caller holds: a coefficient slice or solver arguments
    poly,    \* coef of the caller's Polynomial
    call,    \* the function called last
    ret      \* what it returned

vars == <<input, poly, call, ret>>

Init ==
    /\ input \in Inputs
    /\ poly = new
    /\ call = "new"
    /\ ret = Ok(new)

\* a panic ends the program
Running == ret.tag # "Panic"

Build ==
    /\ Running
    /\ input.kind \in {"coef", "eval"}
    /\ LET res == build(input.v)
       IN  /\ poly' = IF res.tag = "Ok" THEN res.val ELSE poly
           /\ ret' = res
    /\ call' = "build"
    /\ UNCHANGED input

ToTrimmed ==
    /\ Running
    /\ poly' = to_trimmed(poly)
    /\ ret' = Ok(to_trimmed(poly))
    /\ call' = "to_trimmed"
    /\ UNCHANGED input

ToMonic ==
    /\ Running
    /\ LET res == to_monic(poly)
       IN  /\ poly' = IF res.tag = "Ok" THEN res.val ELSE poly
           /\ ret' = res
    /\ call' = "to_monic"
    /\ UNCHANGED input

PolySolveRealQuadratic ==
    /\ Running
    /\ ret' = Polynomial_solve_real_quadratic(poly)
    /\ call' = "Polynomial::solve_real_quadratic"
    /\ UNCHANGED <<input, poly>>

PolySolveRealCubic ==
    /\ Running
    /\ ret' = Polynomial_solve_real_cubic(poly)
    /\ call' = "Polynomial::solve_real_cubic"
    /\ UNCHANGED <<input, poly>>

CallSolveRealQuadratic ==
    /\ Running
    /\ input.kind = "abc"
    /\ ret' = solve_real_quadratic(input.v[1], input.v[2], input.v[3])
    /\ call' = "solve_real_quadratic"
    /\ UNCHANGED <<input, poly>>

CallSolveRealCubic ==
    /\ Running
    /\ input.kind = "abc"
    /\ ret' = solve_real_cubic(input.v[1], input.v[2], input.v[3])
    /\ call' = "solve_real_cubic"
    /\ UNCHANGED <<input, poly>>

Next ==
    \/ Build
    \/ ToTrimmed
    \/ ToMonic
    \/ PolySolveRealQuadratic
    \/ PolySolveRealCubic
    \/ CallSolveRealQuadratic
    \/ CallSolveRealCubic

Spec == Init /\ [][Next]_vars

\* ---- the state machine of evaluation ----

InitEval ==
    /\ input \in EvalInputs
    /\ poly = new
    /\ call = "new"
    /\ ret = Ok(new)

Eval ==
    /\ Running
    /\ input.kind = "eval"
    /\ ret' = Ok(eval(poly, input.x))
    /\ call' = "eval"
    /\ UNCHANGED <<input, poly>>

EvalDerivs ==
    /\ Running
    /\ input.kind = "eval"
    /\ \E overflow_checks \in BOOLEAN :
          ret' = eval_derivs(poly, input.x, input.n, overflow_checks)
    /\ call' = "eval_derivs"
    /\ UNCHANGED <<input, poly>>

NextEval ==
    \/ Build
    \/ ToTrimmed
    \/ ToMonic
    \/ Eval
    \/ EvalDerivs

SpecEval == InitEval /\ [][NextEval]_vars


\* ---- what the claims are stated with ----

AllTracked(s) == \A i \in 1..Len(s) : Tracked(s[i])

AllReal(coef) == \A i \in 1..Len(coef) : coef[i].im = Zero

\* real coefficients whose values the model tracks: no large number, whose
\* products overflow, is among them
AllRealTracked(coef) == \A i \in 1..Len(coef) : coef[i].im = Zero /\ Tracked(coef[i].re)

\* x^3 + a x^2 + b x + c
CubicAt(a, b, c, x) == Add(Add(Add(powi(x, 3), Mul(a, powi(x, 2))), Mul(b, x)), c)

\* a x^2 + b x + c
QuadraticAt(a, b, c, x) == Add(Add(Mul(a, powi(x, 2)), Mul(b, x)), c)

DirectCubic == call = "solve_real_cubic"

DirectQuadratic == call = "solve_real_quadratic"

PolyCubic == call = "Polynomial::solve_real_cubic"

PolyQuadratic == call = "Polynomial::solve_real_quadratic"

ArgA == input.v[1]

ArgB == input.v[2]

ArgC == input.v[3]

\* C1: in the one-real-root case of solve_real_cubic(a, b, c) the value
\* returned, in all three slots, is a root of x^3 + a x^2 + b x + c.
C1_OneRootIsARoot ==
    (DirectCubic /\ CubicBranch(ArgA, ArgB, ArgC) = "one") =>
        /\ ret.tag = "Ok"
        /\ Len(ret.val) = 3
        /\ AllTracked(ret.val) =>
              \A i \in 1..3 : CubicAt(ArgA, ArgB, ArgC, ret.val[i]) = Zero

\* the coefficients, lowest order first, of (x - r1)(x - r2)(x - r3)
PolyOfRoots(t) == RealSeq(<<ExpandRoots(t[1], t[2], t[3])[3],
                            ExpandRoots(t[1], t[2], t[3])[2],
                            ExpandRoots(t[1], t[2], t[3])[1], 1>>)

\* C2: Polynomial::solve_real_cubic on the expansion of (x - r1)(x - r2)(x - r3),
\* r1 <= r2 <= r3, returns Ok([r1, r2, r3]).
C2_RoundTrip ==
    \A t \in SortedRoots :
        (PolyCubic /\ poly = PolyOfRoots(t)) =>
            /\ ret.tag = "Ok"
            /\ Len(ret.val) = 3
            /\ AllTracked(ret.val) => ret.val = F64Seq(t)

\* C3: every Ok result of solve_real_cubic has exactly 3 values, in
\* non-decreasing order, whichever branch produced it.
C3_ThreeAscending ==
    ((DirectCubic \/ PolyCubic) /\ ret.tag = "Ok") =>
        /\ Len(ret.val) = 3
        /\ AllTracked(ret.val) =>
              \A i \in 1..2 : Cmp(ret.val[i], ret.val[i + 1]) <= 0

\* the three-real-roots branch returned three different roots, which it
\* computed in another order than the ascending one
C3_Witness ==
    /\ DirectCubic
    /\ CubicBranch(ArgA, ArgB, ArgC) = "three"
    /\ ret.tag = "Ok"
    /\ AllTracked(ret.val)
    /\ Cmp(ret.val[1], ret.val[2]) < 0
    /\ Cmp(ret.val[2], ret.val[3]) < 0
    /\ ret.val # CubicThreeRoots(ArgA, Div(CubicQ(ArgA, ArgB), Int2F(9)),
                                 CubicR(ArgA, ArgB, ArgC),
                                 powi(Div(CubicR(ArgA, ArgB, ArgC), Int2F(54)), 2),
                                 powi(Div(CubicQ(ArgA, ArgB), Int2F(9)), 3))

\* C4: Polynomial::solve_real_cubic on 4 real coefficients with c3 = 0 returns
\* what the quadratic solver returns for c2 x^2 + c1 x + c0 (ConstantPoly when
\* c2 = c1 = 0 too), and never aborts.
C4_LeadingZeroCascades ==
    (PolyCubic /\ Len(poly) = 4 /\ AllReal(poly) /\ poly[4].re = Zero) =>
        /\ ret.tag # "Panic"
        /\ ret = solve_real_quadratic(poly[3].re, poly[2].re, poly[1].re)

\* what C5 says of the result res of the quadratic solver on a x^2 + b x + c, a # 0
QuadraticContract(a, b, c, res) ==
    LET D == Sub(Mul(b, b), Mul(Int2F(4), Mul(a, c)))
        two_a == Mul(Int2F(2), a)
    IN  CASE FLt(D, Zero) -> res = Err(NoRealRoots)
          [] D = Zero ->
                /\ res.tag = "Ok"
                /\ Len(res.val) = 1
                /\ Mul(two_a, res.val[1]) = Neg(b)
                /\ QuadraticAt(a, b, c, res.val[1]) = Zero
          [] OTHER ->
                /\ res.tag = "Ok"
                /\ Len(res.val) = 2
                /\ AllTracked(res.val) =>
                      LET u1 == Add(Mul(two_a, res.val[1]), b)
                          u2 == Add(Mul(two_a, res.val[2]), b)
                      IN  /\ Sign(u1) > 0 /\ Mul(u1, u1) = D
                          /\ Sign(u2) < 0 /\ Mul(u2, u2) = D
                          /\ QuadraticAt(a, b, c, res.val[1]) = Zero
                          /\ QuadraticAt(a, b, c, res.val[2]) = Zero

\* C5: for a # 0 the quadratic solver fails with NoRealRoots when D < 0, returns
\* [-b/(2a)] when D = 0 and [(-b + sqrt D)/(2a), (-b - sqrt D)/(2a)] when D > 0,
\* all of them roots; Polynomial::solve_real_quadratic passes coef[2], coef[1],
\* coef[0] as a, b, c.  In exact arithmetic: for coefficients without overflow.
C5_QuadraticByDiscriminant ==
    /\ (DirectQuadratic /\ ArgA # Zero) => QuadraticContract(ArgA, ArgB, ArgC, ret)
    /\ (PolyQuadratic /\ Len(poly) = 3 /\ AllRealTracked(poly) /\ poly[3].re # Zero) =>
           QuadraticContract(poly[3].re, poly[2].re, poly[1].re, ret)

\* two roots were returned plus branch first, which with a < 0 is the smaller first
C5_Witness ==
    /\ PolyQuadratic
    /\ Len(poly) = 3
    /\ AllReal(poly)
    /\ Sign(poly[3].re) < 0
    /\ Sign(poly[2].re) # 0
    /\ ret.tag = "Ok"
    /\ Len(ret.val) = 2
    /\ AllTracked(ret.val)
    /\ Cmp(ret.val[1], ret.val[2]) < 0

\* what C6 says of the result res of the quadratic solver on 0 x^2 + b x + c
LinearContract(b, c, res) ==
    IF b = Zero THEN res = Err(ConstantPoly)
    ELSE /\ res.tag = "Ok"
         /\ Len(res.val) = 1
         /\ Mul(b, res.val[1]) = Neg(c)

\* C6: with a = 0 the quadratic solver returns [-c/b] when b # 0 and fails with
\* ConstantPoly when b = 0, whatever c is.  In exact arithmetic: for
\* coefficients without overflow.
C6_LinearDelegate ==
    /\ (DirectQuadratic /\ ArgA = Zero) => LinearContract(ArgB, ArgC, ret)
    /\ (PolyQuadratic /\ Len(poly) = 3 /\ AllRealTracked(poly) /\ poly[3].re = Zero) =>
           LinearContract(poly[2].re, poly[1].re, ret)

\* 0 x^2 + 0 x + c with c # 0 was rejected as constant
C6_Witness ==
    /\ DirectQuadratic
    /\ ArgA = Zero
    /\ ArgB = Zero
    /\ ArgC # Zero
    /\ ret = Err(ConstantPoly)


\* how many of l x^3 + a2 x^2 + a1 x + a0 and its derivatives vanish at x, from
\* the polynomial itself on: the multiplicity of the root x, 0 when x is no root
Multiplicity(l, a2, a1, a0, x) ==
    LET p0 == Add(Add(Add(Mul(l, powi(x, 3)), Mul(a2, powi(x, 2))), Mul(a1, x)), a0)
        p1 == Add(Add(Mul(Mul(Int2F(3), l), powi(x, 2)), Mul(Mul(Int2F(2), a2), x)), a1)
        p2 == Add(Mul(Mul(Int2F(6), l), x), Mul(Int2F(2), a2))
    IN  IF p0 # Zero THEN 0
        ELSE IF p1 # Zero THEN 1
        ELSE IF p2 # Zero THEN 2
        ELSE 3

Count(s, x) == Cardinality({i \in 1..Len(s) : s[i] = x})

\* the equation l x^3 + a2 x^2 + a1 x + a0 = 0 the last solver call was given
Solved ==
    CASE DirectCubic -> <<One, ArgA, ArgB, ArgC>>
      [] DirectQuadratic -> <<Zero, ArgA, ArgB, ArgC>>
      [] OTHER -> <<Zero, poly[3].re, poly[2].re, poly[1].re>>

MultiplicityOf(x) == Multiplicity(Solved[1], Solved[2], Solved[3], Solved[4], x)

\* the solved equation has a root of multiplicity 2 or more
HasRepeatedRoot ==
    IF Solved[1] = Zero
    THEN Solved[2] # Zero /\ Discriminant(Solved[2], Solved[3], Solved[4]) = Zero
    ELSE Mul(Int2F(4), powi(CubicQ(ArgA, ArgB), 3)) = powi(CubicR(ArgA, ArgB, ArgC), 2)

\* a solver returned roots the model tracks
RootsReturned ==
    /\ DirectCubic \/ DirectQuadratic
          \/ (PolyQuadratic /\ Len(poly) = 3 /\ AllRealTracked(poly))
    /\ ret.tag = "Ok"
    /\ AllTracked(ret.val)

\* a root of multiplicity m >= 2 is returned, m times
RepeatedRootsRepeated ==
    /\ HasRepeatedRoot => \E i \in 1..Len(ret.val) : MultiplicityOf(ret.val[i]) >= 2
    /\ \A i \in 1..Len(ret.val) :
          MultiplicityOf(ret.val[i]) >= 2 =>
              Count(ret.val, ret.val[i]) = MultiplicityOf(ret.val[i])

\* a value is returned more than once only if it is a repeated root
OnlyRepeatedRootsRepeated ==
    \A i \in 1..Len(ret.val) :
        Count(ret.val, ret.val[i]) >= 2 => MultiplicityOf(ret.val[i]) >= 2

\* C7 as claimed: in every root sequence of the quadratic and the cubic solver
\* a root of multiplicity m >= 2 appears m times, and a value appears more than
\* once only if it is a repeated root.
C7_MultiplicityByRepetition ==
    RootsReturned => (RepeatedRootsRepeated /\ OnlyRepeatedRootsRepeated)

\* C7 as amended: that holds of the cubic solver's triple-root, double-root and
\* three-real-roots branches; its one-real-root branch returns one value three
\* times, and the quadratic solver returns a double root once and never the
\* same value twice.
C7_RepetitionInCubicBranches ==
    /\ (RootsReturned /\ DirectCubic /\ CubicBranch(ArgA, ArgB, ArgC) # "one") =>
           (RepeatedRootsRepeated /\ OnlyRepeatedRootsRepeated)
    /\ (DirectCubic /\ ret.tag = "Ok" /\ CubicBranch(ArgA, ArgB, ArgC) = "one") =>
           (Len(ret.val) = 3 /\ ret.val[1] = ret.val[2] /\ ret.val[2] = ret.val[3])
    /\ (RootsReturned /\ ~DirectCubic) =>
           /\ HasRepeatedRoot =>
                 (Len(ret.val) = 1 /\ MultiplicityOf(ret.val[1]) = 2)
           /\ \A i \in 1..Len(ret.val) : Count(ret.val, ret.val[i]) = 1

\* the double-root branch returned a double root twice and a simple root once
C7_Witness ==
    /\ DirectCubic
    /\ CubicBranch(ArgA, ArgB, ArgC) = "double"
    /\ ret.tag = "Ok"
    /\ AllTracked(ret.val)
    /\ MultiplicityOf(ret.val[1]) = 1
    /\ MultiplicityOf(ret.val[2]) = 2
    /\ ret.val[2] = ret.val[3]

\* C8: with another coefficient count than 3 (4) Polynomial::solve_real_quadratic
\* (Polynomial::solve_real_cubic) fails with IncorrectOrder(2) (IncorrectOrder(3)),
\* whatever the coefficients are.
C8_OrderCheckedFirst ==
    /\ (PolyQuadratic /\ Len(poly) # 3) => ret = Err(IncorrectOrder(2))
    /\ (PolyCubic /\ Len(poly) # 4) => ret = Err(IncorrectOrder(3))

\* five coefficients, one of them not real and the highest one zero, were
\* rejected by the cubic solver for their count
C8_Witness ==
    /\ PolyCubic
    /\ Len(poly) = 5
    /\ ~AllReal(poly)
    /\ c_is_zero(poly[5])
    /\ ret = Err(IncorrectOrder(3))

\* C9 as claimed: a polynomial with a coefficient that is not real fails with
\* NotRealCoefficients in both solvers.
C9_ComplexRejected ==
    ((PolyQuadratic \/ PolyCubic) /\ ~AllReal(poly)) => ret = Err(NotRealCoefficients)

\* C9 as amended: it does when it has the coefficient count the solver expects
\* (3 for the quadratic, 4 for the cubic one).
C9_ComplexRejectedAfterOrder ==
    /\ (PolyQuadratic /\ Len(poly) = 3 /\ ~AllReal(poly)) =>
           ret = Err(NotRealCoefficients)
    /\ (PolyCubic /\ Len(poly) = 4 /\ ~AllReal(poly)) =>
           ret = Err(NotRealCoefficients)

\* the cubic solver rejected four coefficients of which only the last is not real
C9_Witness ==
    /\ PolyCubic
    /\ Len(poly) = 4
    /\ \A i \in 1..3 : poly[i].im = Zero
    /\ poly[4].im # Zero
    /\ ret = Err(NotRealCoefficients)

NotFinite(x) == x.k \in {"nan", "inf", "ninf"}

NaNOrInfinite(c) == NotFinite(c.re) \/ NotFinite(c.im)

\* C10: build fails with InvalidCoefficients exactly when a coefficient is NaN
\* or infinite and otherwise returns the coefficients it was given ([0] for
\* none); no polynomial that new or build returned has such a coefficient.
C10_BuildValidates ==
    /\ call = "build" =>
          IF \E i \in 1..Len(input.v) : NaNOrInfinite(input.v[i])
          THEN ret = Err(InvalidCoefficients)
          ELSE /\ ret = Ok(IF Len(input.v) = 0 THEN <<Cx(Zero, Zero)>> ELSE input.v)
               /\ poly = ret.val
    /\ call \in {"new", "build"} =>
          \A i \in 1..Len(poly) : ~NaNOrInfinite(poly[i])

\* build rejected coefficients of which none is NaN and one has an infinite
\* imaginary part
C10_Witness ==
    /\ call = "build"
    /\ ret = Err(InvalidCoefficients)
    /\ \A i \in 1..Len(input.v) : ~is_nan(input.v[i].re) /\ ~is_infinite(input.v[i].re)
    /\ \E i \in 1..Len(input.v) : is_infinite(input.v[i].im)


\* ---- evaluation ----

Evaluated == call = "eval"

Derived == call = "eval_derivs"

RECURSIVE T_pow(_, _)
T_pow(x, e) == IF e = 0 THEN T_one ELSE T_mul(x, T_pow(x, e - 1))

\* i (i - 1) ... (i - j + 1)
RECURSIVE Falling(_, _)
Falling(i, j) == IF j = 0 THEN 1 ELSE i * Falling(i - 1, j - 1)

\* the sum over i in from..Len(coef) - 1 of i (i - 1) ... (i - j + 1) coef[i] x^(i - j),
\* coef[i] being the coefficient of x^i
RECURSIVE DerivSum(_, _, _, _)
DerivSum(coef, x, j, from) ==
    IF from > Len(coef) - 1 THEN T_zero
    ELSE T_add(T_mul(T_mul(T_from(Falling(from, j)), coef[from + 1]), T_pow(x, from - j)),
               DerivSum(coef, x, j, from + 1))

\* the j-th derivative at x of the polynomial with the coefficients coef
DerivAt(coef, x, j) == DerivSum(coef, x, j, j)

\* C11: eval(x) is the sum of coef[i] x^i over all i for every non-empty
\* coefficient sequence and every finite x, exactly; it is the one coefficient
\* of a one-coefficient polynomial for every x, NaN and infinite ones included,
\* and zero for an empty coefficient sequence.
C11_EvalIsDirectSum ==
    Evaluated =>
        /\ ret.tag = "Ok"
        /\ (poly # <<>> /\ input.x \in FinitePoints) => ret.val = DerivAt(poly, input.x, 0)
        /\ Len(poly) = 1 => ret.val = poly[1]
        /\ poly = <<>> => ret.val = T_zero

\* a cubic whose coefficients are not the same read backwards was evaluated
\* at a point that is not real, and the value is not real
C11_Witness ==
    /\ Evaluated
    /\ Len(poly) = 4
    /\ poly[4] # T_zero
    /\ poly[1] # poly[4]
    /\ input.x = Cx(Rat(1, 2), One)
    /\ ret.val.im # Zero
    /\ ret.val = DerivAt(poly, input.x, 0)

\* C12: for at least one coefficient and n >= 1, eval_derivs(x, n) returns n
\* entries; entry 0 is eval(x); entry j is the j-th derivative at x, the sum
\* over i >= j of i (i - 1) ... (i - j + 1) coef[i] x^(i - j), for finite x; and
\* every entry j above the degree Len(coef) - 1 is exactly zero, for every x.
C12_DerivsAreDerivatives ==
    (Derived /\ Len(poly) >= 1 /\ input.n >= 1) =>
        /\ ret.tag = "Ok"
        /\ Len(ret.val) = input.n
        /\ ret.val[1] = eval(poly, input.x)
        /\ \A j \in 0..(input.n - 1) :
              /\ input.x \in FinitePoints => ret.val[j + 1] = DerivAt(poly, input.x, j)
              /\ j > Len(poly) - 1 => ret.val[j + 1] = T_zero

\* five derivatives of a cubic were asked for at a real point: the third is
\* 6 coef[3], not zero, and the fourth is zero
C12_Witness ==
    /\ Derived
    /\ Len(poly) = 4
    /\ input.n = 5
    /\ input.x = T_from(-2)
    /\ ret.tag = "Ok"
    /\ ret.val[4] = T_mul(T_from(6), poly[4])
    /\ ret.val[4] # T_zero
    /\ ret.val[3] # T_zero
    /\ ret.val[5] = T_zero

\* C13: eval_derivs(x, 0) returns an empty vector, for every polynomial and
\* every x, and does not fail.
C13_ZeroDerivsEmpty ==
    (Derived /\ input.n = 0) => ret = Ok(<<>>)


\* what C14 says of the coefficients t that to_trimmed returns for the
\* coefficients c, but for the evaluation
TrimContract(c, t) ==
    /\ Len(c) = 1 => t = c
    /\ \E m \in 0..Len(c) :
          /\ t = SubSeq(c, 1, m)
          /\ \A i \in (m + 1)..Len(c) : c[i] = T_zero
          /\ (m >= 1 /\ Len(c) # 1) => c[m] # T_zero
    /\ to_trimmed(t) = t

\* C14 as claimed: to_trimmed removes the maximal run of zero highest-order
\* coefficients and nothing else, leaves a one-coefficient polynomial as it is,
\* is idempotent, and the trimmed polynomial evaluates as the original at
\* every x.
C14_TrimPreservesEval ==
    [][call' = "to_trimmed" =>
          /\ TrimContract(poly, poly')
          /\ \A x \in Points : eval(poly', x) = eval(poly, x)]_vars

\* C14 as amended: to_trimmed removes the maximal run of zero highest-order
\* coefficients and nothing else, leaves a one-coefficient polynomial as it is,
\* is idempotent, and the trimmed polynomial evaluates as the original at
\* every finite x (at a NaN or infinite x a removed zero makes the original NaN).
C14_TrimPreservesFiniteEval ==
    [][call' = "to_trimmed" =>
          /\ TrimContract(poly, poly')
          /\ \A x \in FinitePoints : eval(poly', x) = eval(poly, x)]_vars

\* two zero highest-order coefficients were trimmed off coefficients that
\* start with a zero, which stayed
C14_Witness ==
    /\ call = "to_trimmed"
    /\ Len(poly) >= 2
    /\ Len(input.v) = Len(poly) + 2
    /\ poly = SubSeq(input.v, 1, Len(poly))
    /\ poly[1] = T_zero

StepTracked(c) == Tracked(c.re) /\ Tracked(c.im)

\* what C15 says of the result res of to_monic on the coefficients c; it says
\* nothing of coefficients that are all zero, which have no highest-order
\* coefficient once trimmed (C17 is about those)
MonicContract(c, res) ==
    IF Len(c) = 1 THEN res = Ok(c)
    ELSE LET t == to_trimmed(c)
         IN  t # <<>> =>
             /\ res.tag = "Ok"
             /\ Len(res.val) = Len(t)
             /\ \A i \in 1..Len(t) :
                   StepTracked(res.val[i]) => T_mul(res.val[i], t[Len(t)]) = t[i]
             /\ StepTracked(res.val[Len(t)]) => res.val[Len(t)] = T_one

\* C15: to_monic on more than one coefficient returns the trimmed polynomial
\* divided by its highest-order coefficient, which becomes exactly 1; a
\* one-coefficient polynomial is returned unchanged; Polynomial::solve_real_cubic
\* calls the solver with coef[2], coef[1], coef[0] of the monic form as a, b, c.
C15_MonicFormSolved ==
    [][/\ call' = "to_monic" => MonicContract(poly, ret')
       /\ (call' = "Polynomial::solve_real_cubic" /\ Len(poly) = 4 /\ AllReal(poly)
             /\ poly[4] # T_zero) =>
             ret' = solve_real_cubic(to_monic(poly).val[3].re, to_monic(poly).val[2].re,
                                     to_monic(poly).val[1].re)]_vars

\* C16: Polynomial::solve_real_quadratic on 3 real coefficients that build
\* accepted never takes the NaN-discriminant path: it ends in Ok, in
\* Err(NoRealRoots) or in Err(ConstantPoly).
C16_DiscriminantOrdered ==
    (PolyQuadratic /\ Len(poly) = 3 /\ AllReal(poly)) =>
        \/ ret.tag = "Ok"
        \/ ret = Err(NoRealRoots)
        \/ ret = Err(ConstantPoly)

AllZero(coef) == \A i \in 1..Len(coef) : coef[i] = T_zero

\* C17: whatever new, build, to_trimmed and to_monic calls were made, the
\* polynomial has at least one coefficient and no call has read the last
\* element of an empty coefficient sequence; an all-zero polynomial of two or
\* more coefficients is trimmed and monic-normalised to [0].
C17_NeverEmpty ==
    /\ Len(poly) >= 1
    /\ ret # Panic("unwrap on None")
    /\ (call \in {"to_trimmed", "to_monic"} /\ AllZero(input.v)) => poly = new


\* Q_hat = Q / 9 and R_hat = R / 54 of the solver arguments
QHat == Div(CubicQ(ArgA, ArgB), Int2F(9))

RHat == Div(CubicR(ArgA, ArgB, ArgC), Int2F(54))

\* R_hat^2 - Q_hat^3
Radicand == Sub(powi(RHat, 2), powi(QHat, 3))

\* the argument of the arccosine
AcosArgument == Mul(signum(CubicR(ArgA, ArgB, ArgC)), sqrt(Div(powi(RHat, 2), powi(QHat, 3))))

Ascending(s) == \A i \in 1..(Len(s) - 1) : Cmp(s[i], s[i + 1]) <= 0

\* C18: for the solver arguments a, b, c, in exact arithmetic: the test
\* 729 R^2 == 2916 Q^3 holds exactly when R_hat^2 == Q_hat^3; in the double-root
\* branch Q_hat > 0 and the three values are ascending as computed; in the
\* three-real-roots branch Q_hat > 0 and the arccosine argument is in [-1, 1];
\* in the one-real-root branch R_hat^2 - Q_hat^3 > 0 and A_hat, minus the sign
\* of R times the cube root of |R_hat| + sqrt(R_hat^2 - Q_hat^3), is not zero.
C18_BranchesWellDefined ==
    DirectCubic =>
        LET branch == CubicBranch(ArgA, ArgB, ArgC)
            q == CubicQ(ArgA, ArgB)
            r == CubicR(ArgA, ArgB, ArgC)
            a_cap == Mul(Neg(signum(r)), cbrt(Add(FAbs(RHat), sqrt(Radicand))))
        IN  /\ AllTracked(<<q, r, QHat, RHat, Radicand>>)
            /\ (CubicCR2(r) = CubicCQ3(q)) <=> (Radicand = Zero)
            /\ branch = "double" =>
                  /\ Sign(QHat) > 0
                  /\ AllTracked(CubicDoubleRoot(ArgA, QHat, r))
                  /\ Ascending(CubicDoubleRoot(ArgA, QHat, r))
            /\ branch = "three" =>
                  /\ Sign(QHat) > 0
                  /\ Tracked(AcosArgument)
                  /\ Cmp(Int2F(-1), AcosArgument) <= 0
                  /\ Cmp(AcosArgument, One) <= 0
            /\ branch = "one" =>
                  /\ Sign(Radicand) > 0
                  /\ Tracked(sqrt(Radicand))
                  /\ Sign(sqrt(Radicand)) > 0
                  /\ Sign(FAbs(RHat)) >= 0
                  /\ signum(r) \in {One, Int2F(-1)}
                  /\ Tracked(a_cap) => a_cap # Zero

\* the three-real-roots branch was taken with an arccosine argument strictly
\* between 0 and 1 that is not rational
C18_Witness ==
    /\ DirectCubic
    /\ CubicBranch(ArgA, ArgB, ArgC) = "three"
    /\ Cmp(Zero, AcosArgument) < 0
    /\ Cmp(AcosArgument, One) < 0
    /\ AcosArgument.r # 1


====
